---- MODULE Spec2Model ----
(***************************************************************************)
(* A model of src/utils/embeddings.py: the one-shot command line program   *)
(* that reads a text file, asks a sentence-embedding model for the vector  *)
(* of the text and writes it as JSON.                                      *)
(*                                                                         *)
(* One invocation of the script is one behaviour.  The command line, the   *)
(* previous content of the output path and every outcome of the            *)
(* environment (missing packages, unreadable input, model failures, the    *)
(* container type and the components of the encoded vector, a write that   *)
(* stops part-way) are chosen nondeterministically.  The two console       *)
(* streams are modelled as sequences of messages; writing to them always   *)
(* succeeds.                                                               *)
(***************************************************************************)
EXTENDS Integers, Sequences, FiniteSets, TLC

VARIABLES
    pc,         \* the statement the script is about to run
    argv,       \* the command line of this invocation
    args,       \* the namespace parse_args returned (line 69)
    text,       \* main's local `text` (line 74)
    model,      \* get_embedding's local `model` (line 41)
    raw,        \* what model.encode returned (line 44)
    embedding,  \* get_embedding's local `embedding`, then main's (lines 44-53, 77)
    prior,      \* the content of the output path before the invocation
    outFile,    \* the content of the output path now
    stdout,     \* messages printed to the standard output
    stderr,     \* messages printed to the error stream
    exitCode,   \* the exit status of the process, Running while it runs
    log         \* the steps attempted so far, each with its outcome

vars == <<pc, argv, args, text, model, raw, embedding, prior, outFile,
          stdout, stderr, exitCode, log>>

----------------------------------------------------------------------------
(* Bounds of the model *)

\* the longest vector model.encode returns
MaxDim == 2
\* vector components range over 0..MaxVal
MaxVal == 1

----------------------------------------------------------------------------
(* Values *)

\* the value of exitCode while the process has not exited
Running == 0 - 1

Values == 0..MaxVal

Vectors == UNION {[1..n -> Values] : n \in 0..MaxDim}

\* The container types model.encode can hand back: the two the code converts,
\* a plain list, and two it does not know (a tuple, which json serializes as an
\* array, and an array-like object json cannot serialize).
Kinds == {"tensor", "ndarray", "list", "tuple", "object"}

None == [kind |-> "None", data |-> <<>>]

Container(k, v) == [kind |-> k, data |-> v]

Texts == {"", "hello world"}

DefaultModel == "jinaai/jina-embeddings-v3"

OtherModel == "all-MiniLM-L6-v2"

InputPath == "in.txt"

OutputPath == "out.json"

NoArgs == [input |-> "", output |-> "", model |-> ""]

Msg(p, t) == [prefix |-> p, text |-> t]

Entry(s, o) == [step |-> s, ok |-> o]

\* a chunk of JSON text: a piece of punctuation, with the number it carries
Tok(s) == [tok |-> s, num |-> -1]

Num(s, n) == [tok |-> s, num |-> n]

Absent == [exists |-> FALSE, data |-> <<>>]

File(d) == [exists |-> TRUE, data |-> d]

\* What the output path can hold before the invocation: nothing, text that is
\* not JSON, or an embedding written by an earlier run.
PriorContents ==
    { Absent,
      File(<<Tok("stale")>>),
      File(<<Tok("{"), Tok("\"embedding\""), Tok(": "), Num("[", 1), Num(", ", 1),
             Num(", ", 0), Tok("]"), Tok("}")>>) }

CommandLines ==
    [input : BOOLEAN, output : BOOLEAN, model : BOOLEAN, help : BOOLEAN,
     unknown : BOOLEAN]

----------------------------------------------------------------------------
(* Exceptions the environment can raise at each step *)

ReadErrors == {"FileNotFoundError", "UnicodeDecodeError"}

LoadErrors == {"OSError: no such model"}

EncodeErrors == {"RuntimeError: out of memory"}

ConvertErrors == {"TypeError: unsupported dtype"}

OpenErrors == {"PermissionError"}

WriteErrors == {"OSError: no space left on device"}

JsonError == "TypeError: not JSON serializable"

----------------------------------------------------------------------------
(* Pure helpers *)

\* embedding.cpu().detach().numpy()   (line 48)
TensorToNumpy(e) == Container("ndarray", e.data)

\* embedding.tolist()   (line 51)
NdarrayToList(e) == Container("list", e.data)

ToPythonList_DropsLast(e) ==
    LET a == IF e.kind = "tensor" THEN TensorToNumpy(e) ELSE e
        b == IF a.kind = "ndarray" THEN NdarrayToList(a) ELSE a
    IN  IF Len(b.data) > 0
        THEN Container(b.kind, SubSeq(b.data, 1, Len(b.data) - 1))
        ELSE b

\* lines 46-51: the two isinstance tests, with no else branch
ToPythonList(e) ==
    LET a == IF e.kind = "tensor" THEN TensorToNumpy(e) ELSE e
    IN  IF a.kind = "ndarray" THEN NdarrayToList(a) ELSE a

\* the chunks json.dump writes for a list or a tuple of floats
ArrayChunks(v) ==
    IF Len(v) = 0
    THEN <<Tok("[]")>>
    ELSE [i \in 1..Len(v) |-> Num(IF i = 1 THEN "[" ELSE ", ", v[i])]
         \o <<Tok("]")>>

ObjectHead == <<Tok("{"), Tok("\"embedding\""), Tok(": ")>>

JsonChunks_NoClose(e) == ObjectHead \o ArrayChunks(e.data)

\* json.dump({"embedding": embedding}, f)   (line 81): the chunks written, in
\* order; for a value json cannot serialize, the chunks written before the
\* TypeError
JsonChunks(e) ==
    IF e.kind \in {"list", "tuple"}
    THEN ObjectHead \o ArrayChunks(e.data) \o <<Tok("}")>>
    ELSE ObjectHead

\* json.dump raises for anything but the basic types
Serializable(e) == e.kind \in {"list", "tuple"}

OpenW_Append(f) == File(f.data)

\* open(args.output, "w")   (line 80): creates the file or truncates it
OpenW(f) == File(<<>>)

MissingRequired_InputOnly(a) == ~a.input

\* required=True on --input and on --output   (lines 62-63)
MissingRequired(a) == ~a.input \/ ~a.output

\* the namespace of a command line that parsed   (lines 62-69)
Namespace(a) ==
    [input |-> InputPath, output |-> OutputPath,
     model |-> IF a.model THEN OtherModel ELSE DefaultModel]

----------------------------------------------------------------------------
(* The two exception handlers *)

GetEmbeddingExcept_Silent(err, e) == err

\* get_embedding's handler (lines 54-56): print with its own prefix, then
\* re-raise; the result is the error stream as the re-raised exception leaves it
GetEmbeddingExcept(err, e) == Append(err, Msg("Error generating embedding: ", e))

Caught_ExitZero(step, e, err) ==
    /\ stderr' = Append(err, Msg("Error: ", e))
    /\ exitCode' = 0
    /\ pc' = "done"
    /\ log' = Append(log, Entry(step, FALSE))

Caught_Silent(step, e, err) ==
    /\ stderr' = err
    /\ exitCode' = 1
    /\ pc' = "done"
    /\ log' = Append(log, Entry(step, FALSE))

Caught_Retry(step, e, err) ==
    /\ stderr' = Append(err, Msg("Error: ", e))
    /\ exitCode' = exitCode
    /\ pc' = pc
    /\ log' = Append(log, Entry(step, FALSE))

\* main's handler (lines 85-87) and sys.exit(main()) (line 91): the exception
\* `e` raised by `step` is printed to the error stream, main returns 1 and the
\* process exits with it
Caught(step, e, err) ==
    /\ stderr' = Append(err, Msg("Error: ", e))
    /\ exitCode' = 1
    /\ pc' = "done"
    /\ log' = Append(log, Entry(step, FALSE))

\* a step that completed: control moves on to `next`
Completed(step, next) ==
    /\ pc' = next
    /\ log' = Append(log, Entry(step, TRUE))

----------------------------------------------------------------------------
(* The initial state: the interpreter is about to run the script *)

Init ==
    /\ pc = "import"
    /\ argv \in CommandLines
    /\ args = NoArgs
    /\ text = ""
    /\ model = ""
    /\ raw = None
    /\ embedding = None
    /\ prior \in PriorContents
    /\ outFile = prior
    /\ stdout = <<>>
    /\ stderr = <<>>
    /\ exitCode = Running
    /\ log = <<>>

----------------------------------------------------------------------------
(* The steps of the script *)

\* lines 15-22: the guarded imports; on ImportError two lines go to the
\* standard output and the process exits with 1
Import ==
    /\ pc = "import"
    /\ \/ /\ Completed("import", "parse")
          /\ UNCHANGED <<stdout, exitCode>>
       \/ /\ stdout' = stdout \o
                <<Msg("Required packages not found. Please install them with:", ""),
                  Msg("pip install ", "sentence-transformers torch numpy")>>
          /\ exitCode' = 1
          /\ pc' = "done"
          /\ log' = Append(log, Entry("import", FALSE))
    /\ UNCHANGED <<argv, args, text, model, raw, embedding, prior, outFile, stderr>>

ParserError_Stdout(message) ==
    /\ stdout' = Append(stdout, Msg("error: ", message))
    /\ exitCode' = 1
    /\ pc' = "done"
    /\ log' = Append(log, Entry("parse", FALSE))
    /\ UNCHANGED <<args, stderr>>

\* what parse_args (line 69) does with a command line it rejects: the usage
\* and the message go to the error stream and the process exits with status 2
ParserError(message) ==
    /\ stderr' = Append(stderr, Msg("error: ", message))
    /\ exitCode' = 2
    /\ pc' = "done"
    /\ log' = Append(log, Entry("parse", FALSE))
    /\ UNCHANGED <<args, stdout>>

\* lines 61-69: parse_args.  The parser's built-in -h/--help prints the help
\* and exits with 0 as soon as it is met; a missing required flag or an
\* unrecognized argument is a parser error.
ParseArgs ==
    /\ pc = "parse"
    /\ IF argv.help
       THEN /\ stdout' = Append(stdout, Msg("usage: ", "help"))
            /\ exitCode' = 0
            /\ pc' = "done"
            /\ log' = Append(log, Entry("parse", TRUE))
            /\ UNCHANGED <<args, stderr>>
       ELSE IF MissingRequired(argv)
       THEN ParserError("the following arguments are required")
       ELSE IF argv.unknown
       THEN ParserError("unrecognized arguments")
       ELSE /\ args' = Namespace(argv)
            /\ Completed("parse", "read")
            /\ UNCHANGED <<stdout, stderr, exitCode>>
    /\ UNCHANGED <<argv, text, model, raw, embedding, prior, outFile>>

\* lines 73-74: open the input file and read all of it as UTF-8
ReadInput ==
    /\ pc = "read"
    /\ \/ /\ \E t \in Texts : text' = t
          /\ Completed("read", "load")
          /\ UNCHANGED <<stderr, exitCode>>
       \/ /\ \E e \in ReadErrors : Caught("read", e, stderr)
          /\ UNCHANGED text
    /\ UNCHANGED <<argv, args, model, raw, embedding, prior, outFile, stdout>>

\* line 41, inside get_embedding's try: SentenceTransformer(model_name)
LoadModel ==
    /\ pc = "load"
    /\ \/ /\ model' = args.model
          /\ Completed("load", "encode")
          /\ UNCHANGED <<stderr, exitCode>>
       \/ /\ \E e \in LoadErrors : Caught("load", e, GetEmbeddingExcept(stderr, e))
          /\ UNCHANGED model
    /\ UNCHANGED <<argv, args, text, raw, embedding, prior, outFile, stdout>>

\* line 44: model.encode(text, normalize_embeddings=True); the library decides
\* the container and the components
Encode ==
    /\ pc = "encode"
    /\ \/ /\ \E k \in Kinds, v \in Vectors :
                /\ raw' = Container(k, v)
                /\ embedding' = Container(k, v)
          /\ Completed("encode", "convert")
          /\ UNCHANGED <<stderr, exitCode>>
       \/ /\ \E e \in EncodeErrors : Caught("encode", e, GetEmbeddingExcept(stderr, e))
          /\ UNCHANGED <<raw, embedding>>
    /\ UNCHANGED <<argv, args, text, model, prior, outFile, stdout>>

\* lines 46-53 and the assignment of line 77: the conversion to a Python list
\* and the return; only the tensor and ndarray branches call anything that can
\* raise
Convert ==
    /\ pc = "convert"
    /\ \/ /\ embedding' = ToPythonList(embedding)
          /\ Completed("convert", "open")
          /\ UNCHANGED <<stderr, exitCode>>
       \/ /\ embedding.kind \in {"tensor", "ndarray"}
          /\ \E e \in ConvertErrors : Caught("convert", e, GetEmbeddingExcept(stderr, e))
          /\ UNCHANGED embedding
    /\ UNCHANGED <<argv, args, text, model, raw, prior, outFile, stdout>>

\* line 80: open(args.output, "w")
OpenOutput ==
    /\ pc = "open"
    /\ \/ /\ outFile' = OpenW(outFile)
          /\ Completed("open", "dump")
          /\ UNCHANGED <<stderr, exitCode>>
       \/ /\ \E e \in OpenErrors : Caught("open", e, stderr)
          /\ UNCHANGED outFile
    /\ UNCHANGED <<argv, args, text, model, raw, embedding, prior, stdout>>

\* line 81 and the end of the with block: json.dump writes its chunks in
\* order and the file is closed.  The dump stops at a value json cannot
\* serialize, and any write can fail; what was written before stays in the file.
Dump ==
    /\ pc = "dump"
    /\ LET chunks == JsonChunks(embedding)
       IN  \/ /\ Serializable(embedding)
              /\ outFile' = File(outFile.data \o chunks)
              /\ Completed("dump", "print")
              /\ UNCHANGED <<stderr, exitCode>>
           \/ /\ ~Serializable(embedding)
              /\ outFile' = File(outFile.data \o chunks)
              /\ Caught("dump", JsonError, stderr)
           \/ \E k \in 0..(Len(chunks) - 1), e \in WriteErrors :
                /\ outFile' = File(outFile.data \o SubSeq(chunks, 1, k))
                /\ Caught("dump", e, stderr)
    /\ UNCHANGED <<argv, args, text, model, raw, embedding, prior, stdout>>

\* lines 83-84 and 91: the confirmation message, return 0, sys.exit(0)
PrintSaved ==
    /\ pc = "print"
    /\ stdout' = Append(stdout, Msg("Embedding saved to ", args.output))
    /\ exitCode' = 0
    /\ pc' = "done"
    /\ log' = Append(log, Entry("print", TRUE))
    /\ UNCHANGED <<argv, args, text, model, raw, embedding, prior, outFile, stderr>>

Next ==
    \/ Import
    \/ ParseArgs
    \/ ReadInput
    \/ LoadModel
    \/ Encode
    \/ Convert
    \/ OpenOutput
    \/ Dump
    \/ PrintSaved

Spec == Init /\ [][Next]_vars

----------------------------------------------------------------------------
(* Vocabulary of the properties *)

Exited == pc = "done"

Tried(s) == \E i \in 1..Len(log) : log[i].step = s

Did(s) == \E i \in 1..Len(log) : log[i].step = s /\ log[i].ok

Failed(s) == \E i \in 1..Len(log) : log[i].step = s /\ ~log[i].ok

\* the steps inside main's try block, and those inside get_embedding's
InputSteps == {"read"}

ModelSteps == {"load", "encode", "convert"}

OutputSteps == {"open", "dump"}

TrySteps == InputSteps \cup ModelSteps \cup OutputSteps

AllErrors ==
    ReadErrors \cup LoadErrors \cup EncodeErrors \cup ConvertErrors
        \cup OpenErrors \cup WriteErrors \cup {JsonError}

Order ==
    <<"import", "parse", "read", "load", "encode", "convert", "open", "dump", "print">>

LastErr == stderr[Len(stderr)]

ConfirmationPrinted ==
    \E i \in 1..Len(stdout) : stdout[i] = Msg("Embedding saved to ", OutputPath)

HelpPrinted == stdout = <<Msg("usage: ", "help")>>

Invalid == [valid |-> FALSE, arr |-> <<>>]

\* A reader of the output file: the content is valid when it is exactly one
\* object with the single key "embedding" and an array of numbers as its value.
DecodeArray(b) ==
    IF b = <<Tok("[]")>>
    THEN [valid |-> TRUE, arr |-> <<>>]
    ELSE IF /\ Len(b) >= 2
            /\ b[Len(b)] = Tok("]")
            /\ b[1].tok = "["
            /\ \A i \in 1..(Len(b) - 1) : b[i].num >= 0
            /\ \A i \in 2..(Len(b) - 1) : b[i].tok = ", "
    THEN [valid |-> TRUE, arr |-> [i \in 1..(Len(b) - 1) |-> b[i].num]]
    ELSE Invalid

DecodeEmbedding(c) ==
    IF /\ Len(c) >= 5
       /\ SubSeq(c, 1, 3) = ObjectHead
       /\ c[Len(c)] = Tok("}")
    THEN DecodeArray(SubSeq(c, 4, Len(c) - 1))
    ELSE Invalid

\* the complete JSON text of the object {"embedding": <components of e>}
FullText(e) == ObjectHead \o ArrayChunks(e.data) \o <<Tok("}")>>

ProperPrefix(p, q) == Len(p) < Len(q) /\ p = SubSeq(q, 1, Len(p))

NothingDone ==
    /\ ~Tried("read") /\ ~Tried("load") /\ ~Tried("encode") /\ ~Tried("open")
    /\ text = "" /\ model = "" /\ raw = None
    /\ outFile = prior

----------------------------------------------------------------------------
(* C1 *)

\* C1: whenever the arguments parsed and a step of main's try block (reading
\* the input, loading the model, encoding, converting, opening or writing the
\* output, serializing) raised, the process has exited with status 1 and the
\* last message on the error stream is "Error: " followed by the message of
\* that exception.
C1_FailureCaught ==
    \A s \in TrySteps :
        Failed(s) =>
            /\ Did("parse")
            /\ Exited
            /\ exitCode = 1
            /\ Len(stderr) > 0
            /\ LastErr.prefix = "Error: "
            /\ LastErr.text \in AllErrors

C1_Witness == Failed("dump") /\ exitCode = 1 /\ LastErr = Msg("Error: ", JsonError)

----------------------------------------------------------------------------
(* C2 *)

ThreeStepsCompleted == Did("read") /\ Did("convert") /\ Did("dump")

FullyWritten ==
    /\ Did("dump")
    /\ outFile.exists
    /\ outFile.data = FullText(embedding)

----------------------------------------------------------------------------
(* C3 *)

\* the command line lacks --input or lacks --output
FlagMissing == ~argv.input \/ ~argv.output

\* C3 as stated: with --input or --output missing, the process exits with a
\* nonzero status and nothing was read, loaded or opened.
C3_Original ==
    FlagMissing =>
        /\ NothingDone
        /\ Exited => exitCode # 0

\* C3 amended: with --input or --output missing, nothing is read, loaded or
\* opened, and the process exits with a nonzero status (2 from the argument
\* parser, with its message on the error stream) unless -h/--help was given,
\* which exits with 0.
C3_Amended ==
    FlagMissing =>
        /\ NothingDone
        /\ pc \in {"import", "parse", "done"}
        /\ (Exited /\ ~argv.help) => exitCode # 0
        /\ (Exited /\ ~argv.help /\ Did("import")) =>
              exitCode = 2 /\ Len(stderr) = 1 /\ LastErr.prefix = "error: "
        /\ (Exited /\ argv.help /\ Did("import")) => exitCode = 0

C3_Witness ==
    /\ FlagMissing /\ ~argv.help
    /\ Exited /\ Failed("parse") /\ exitCode = 2

----------------------------------------------------------------------------
(* C4 *)

\* C4 as stated: every failure (usage, input file, model, output file) is
\* printed to the error stream and exits with 1; the exit status is 0 or 1.
C4_Original ==
    Exited =>
        /\ exitCode \in {0, 1}
        /\ \A s \in TrySteps \cup {"parse"} :
              Failed(s) => exitCode = 1 /\ Len(stderr) > 0

\* C4 amended: input-file, model and output-file failures are printed to the
\* error stream and exit with 1; a usage error is printed to the error stream
\* by the argument parser and exits with 2; the exit status is 0, 1 or 2, and
\* 2 comes from a usage error only.
C4_Amended ==
    Exited =>
        /\ exitCode \in {0, 1, 2}
        /\ \A s \in TrySteps :
              Failed(s) => exitCode = 1 /\ Len(stderr) > 0
        /\ Failed("parse") => exitCode = 2 /\ Len(stderr) > 0
        /\ exitCode = 2 => Failed("parse")

C4_Witness ==
    /\ Exited /\ Failed("parse") /\ exitCode = 2
    /\ argv.input /\ argv.output /\ argv.unknown

----------------------------------------------------------------------------
(* C5 *)

\* C5 as stated: after any exit with status 0 the output path holds exactly
\* one JSON object with the single key "embedding" and the vector's components
\* as its value, and none of its previous content.
C5_Original ==
    (Exited /\ exitCode = 0) =>
        /\ outFile.exists
        /\ DecodeEmbedding(outFile.data) = [valid |-> TRUE, arr |-> embedding.data]

\* C5 amended: after any exit with status 0 of an invocation without
\* -h/--help, the output path holds exactly one JSON object with the single
\* key "embedding" and the vector's components as its value, and none of its
\* previous content; an -h/--help invocation exits with 0 and leaves the
\* output path as it was.
C5_Amended ==
    (Exited /\ exitCode = 0) =>
        IF argv.help
        THEN outFile = prior
        ELSE /\ outFile.exists
             /\ DecodeEmbedding(outFile.data) = [valid |-> TRUE, arr |-> embedding.data]

C5_Witness ==
    /\ Exited /\ exitCode = 0 /\ ~argv.help
    /\ DecodeEmbedding(prior.data).valid
    /\ Len(embedding.data) = 2

----------------------------------------------------------------------------
(* C6 *)

\* C6 as stated: whenever get_embedding has returned, what it returned is a
\* plain list, whatever container model.encode handed back.
C6_AlwaysList == Did("convert") => embedding.kind = "list"

----------------------------------------------------------------------------
(* C7 *)

\* C7: the steps run in the one order import, parse, read, load, encode,
\* convert, open, dump, print; each is attempted at most once; a step starts
\* only when every earlier one completed, and a step that failed ends the run.
\* So the model is loaded only after a completed read and the output file is
\* touched only after a completed embedding.
C7_Linear ==
    /\ Len(log) <= Len(Order)
    /\ \A i \in 1..Len(log) :
          /\ log[i].step = Order[i]
          /\ i < Len(log) => log[i].ok
    /\ (Len(log) > 0 /\ ~log[Len(log)].ok) => Exited
    /\ ~Exited => pc = Order[Len(log) + 1]
    /\ model # "" => Did("read")
    /\ outFile # prior => Did("read") /\ Did("convert")
    /\ Exited <=> exitCode # Running

C7_Witness == Exited /\ Failed("encode") /\ Len(log) = 5 /\ outFile = prior

----------------------------------------------------------------------------
(* C8 *)

\* C8: a failure inside get_embedding (load, encode, conversion) leaves
\* exactly two messages on the error stream, "Error generating embedding: "
\* then "Error: ", both with the exception's message, and status 1; an
\* input-file or output-file failure leaves the single "Error: " message.
C8_TwoReports ==
    /\ \A s \in ModelSteps :
          Failed(s) =>
              /\ exitCode = 1
              /\ Len(stderr) = 2
              /\ stderr[1].prefix = "Error generating embedding: "
              /\ stderr[2].prefix = "Error: "
              /\ stderr[1].text = stderr[2].text
              /\ stderr[1].text \in LoadErrors \cup EncodeErrors \cup ConvertErrors
    /\ \A s \in InputSteps \cup OutputSteps :
          Failed(s) =>
              /\ exitCode = 1
              /\ Len(stderr) = 1
              /\ stderr[1].prefix = "Error: "

C8_Witness ==
    /\ Failed("convert")
    /\ stderr = <<Msg("Error generating embedding: ", "TypeError: unsupported dtype"),
                  Msg("Error: ", "TypeError: unsupported dtype")>>

----------------------------------------------------------------------------
(* C9 *)

\* C9: on a run that wrote the output and exited with 0, the array under
\* "embedding" is the vector model.encode returned: same length, same order,
\* same components.
C9_VectorUnchanged ==
    (Exited /\ exitCode = 0 /\ Did("dump")) =>
        LET d == DecodeEmbedding(outFile.data)
        IN  /\ d.valid
            /\ Len(d.arr) = Len(raw.data)
            /\ \A i \in 1..Len(d.arr) : d.arr[i] = raw.data[i]

C9_Witness ==
    /\ Exited /\ exitCode = 0 /\ Did("dump")
    /\ raw.kind = "tensor"
    /\ Len(raw.data) = 2 /\ raw.data[1] # raw.data[2]

----------------------------------------------------------------------------
(* C10 *)

\* C10 as stated: whenever the process exits with a nonzero status, the output
\* path holds what it held before the invocation.
C10_Original == (Exited /\ exitCode # 0) => outFile = prior

\* C10 amended: whenever the process exits with a nonzero status without
\* having opened the output file, the output path holds what it held before
\* the invocation; a run that fails after opening it (while serializing or
\* writing) leaves the file existing, its previous content gone, holding a
\* proper prefix, possibly empty, of the JSON text.
C10_Amended ==
    (Exited /\ exitCode # 0) =>
        IF Did("open")
        THEN /\ Failed("dump")
             /\ outFile.exists
             /\ ProperPrefix(outFile.data, FullText(embedding))
             /\ ~DecodeEmbedding(outFile.data).valid
        ELSE outFile = prior

C10_Witness ==
    /\ Exited /\ exitCode = 1 /\ Failed("dump")
    /\ DecodeEmbedding(prior.data).valid
    /\ outFile.data = ObjectHead

====
